---- MODULE Spec2Model ----
(***************************************************************************)
(* Model of the data pipeline of download_data.py: the entry point, the    *)
(* Overpass query, the conversion, the tag normalization, the layer split  *)
(* and the file writes.                                                    *)
(*                                                                         *)
(* Python strings are sequences of one-character strings, so that the      *)
(* regular expressions of keep_key and the string concatenations of        *)
(* process_feature_properties are computed character by character.         *)
(* A tag dict is a function from keys (strings) to values (strings); a     *)
(* dict with a fixed set of keys (a feature, a collection) is a record;    *)
(* an insertion-ordered dict that is iterated (the routers, the result of  *)
(* split_geojson) is a sequence of entries.                                *)
(***************************************************************************)
EXTENDS Integers, Sequences, FiniteSets, TLC

\* ---------------------------------------------------------------- bounds
\* Largest number of tags of a feature in SpecNormalize.
MaxTags == 3
\* Largest number of elements in the response of the Overpass API in Spec.
MaxFeatures == 2

\* ------------------------------------------------- string literals of the code
k_name == <<"n","a","m","e">>
k_name_pl == <<"n","a","m","e",":","p","l">>
k_name_uk == <<"n","a","m","e",":","u","k">>
k_name_ua == <<"n","a","m","e",":","u","a">>
k_name_en == <<"n","a","m","e",":","e","n">>
k_name_ru == <<"n","a","m","e",":","r","u">>
k_source == <<"s","o","u","r","c","e">>
k_ref == <<"r","e","f">>
k_phone == <<"p","h","o","n","e">>
k_contact_phone == <<"c","o","n","t","a","c","t",":","p","h","o","n","e">>
k_addr_housenumber == <<"a","d","d","r",":","h","o","u","s","e","n","u","m","b","e","r">>
k_addr_city == <<"a","d","d","r",":","c","i","t","y">>
k_addr_place == <<"a","d","d","r",":","p","l","a","c","e">>
k_addr_street == <<"a","d","d","r",":","s","t","r","e","e","t">>
k_address == <<"a","d","d","r","e","s","s">>
k_addr == <<"a","d","d","r">>
k_nl_phone == <<"a","\n","p","h","o","n","e">>
k_phone_nl == <<"p","h","o","n","e","\n">>
k_amenity == <<"a","m","e","n","i","t","y">>
k_healthcare == <<"h","e","a","l","t","h","c","a","r","e">>
k_social_facility == <<"s","o","c","i","a","l","_","f","a","c","i","l","i","t","y">>
k_social_facility_for == <<"s","o","c","i","a","l","_","f","a","c","i","l","i","t","y",":","f","o","r">>
k_information_for == <<"i","n","f","o","r","m","a","t","i","o","n",":","f","o","r">>
k_office == <<"o","f","f","i","c","e">>
k_country == <<"c","o","u","n","t","r","y">>
k_building == <<"b","u","i","l","d","i","n","g">>
lit_name == <<"n","a","m","e">>
lit_source == <<"s","o","u","r","c","e">>
lit_ref == <<"r","e","f">>
lit_phone == <<"p","h","o","n","e">>
lit_addr == <<"a","d","d","r",":">>
v_refugee == <<"r","e","f","u","g","e","e">>
v_refugees == <<"r","e","f","u","g","e","e","s">>
v_blood_donation == <<"b","l","o","o","d","_","d","o","n","a","t","i","o","n">>
v_food_bank == <<"f","o","o","d","_","b","a","n","k">>
v_soup_kitchen == <<"s","o","u","p","_","k","i","t","c","h","e","n">>
v_outreach == <<"o","u","t","r","e","a","c","h">>
v_pharmacy == <<"p","h","a","r","m","a","c","y">>
v_hospital == <<"h","o","s","p","i","t","a","l">>
v_bus_station == <<"b","u","s","_","s","t","a","t","i","o","n">>
v_diplomatic == <<"d","i","p","l","o","m","a","t","i","c">>
v_UA == <<"U","A">>
v_PL == <<"P","L">>
v_train_station == <<"t","r","a","i","n","_","s","t","a","t","i","o","n">>
v_N == <<"N">>
v_pl == <<"p","l">>
v_uk == <<"u","k">>
v_ua == <<"u","a">>
v_en == <<"e","n">>
v_ru == <<"r","u">>
v_X == <<"X">>
v_P == <<"P">>
v_Main == <<"M","a","i","n">>
v_5 == <<"5">>
v_111 == <<"1","1","1">>
v_222 == <<"2","2","2">>
v_old == <<"o","l","d">>
v_osm == <<"o","s","m">>
n_reception_points == <<"r","e","c","e","p","t","i","o","n","_","p","o","i","n","t","s">>
n_information_points == <<"i","n","f","o","r","m","a","t","i","o","n","_","p","o","i","n","t","s">>
n_blood_donation_points == <<"b","l","o","o","d","_","d","o","n","a","t","i","o","n","_","p","o","i","n","t","s">>
n_social_facilities == <<"s","o","c","i","a","l","_","f","a","c","i","l","i","t","i","e","s">>
n_pharmacies == <<"p","h","a","r","m","a","c","i","e","s">>
n_hospitals == <<"h","o","s","p","i","t","a","l","s">>
n_consulates == <<"c","o","n","s","u","l","a","t","e","s">>
n_train_stations == <<"t","r","a","i","n","_","s","t","a","t","i","o","n","s">>
n_bus_stations == <<"b","u","s","_","s","t","a","t","i","o","n","s">>
n_osm_data_geojson == <<"o","s","m","_","d","a","t","a",".","g","e","o","j","s","o","n">>
ext_geojson == <<".","g","e","o","j","s","o","n">>

\* ---------------------------------------------------------- Python values
\* Python's None: a sequence no string of the model equals.
None == <<"<None>">>
\* The truth value Python gives a string or None: false for None and "".
Truthy(x) == x # None /\ x # <<>>
\* dict.get(key): the value, or None when the key is missing.
Get(d, key) == IF key \in DOMAIN d THEN d[key] ELSE None
\* dict.get(key, default).
GetDefault(d, key, default) == IF key \in DOMAIN d THEN d[key] ELSE default
\* d[key] = value on a dict: the key is added or its value replaced.
SetItem(d, key, value) == [k \in DOMAIN d \cup {key} |-> IF k = key THEN value ELSE d[k]]
\* The outcome of a call: a returned value or a raised exception.
Return(v) == [exc |-> "none", value |-> v]
Raise(e) == [exc |-> e]

\* ------------------------------------------------------------ regular expressions
\* What re.match does with the pattern "^<lit>.*": the literal at the start of
\* the string; ".*" may match nothing and match() does not have to reach the end.
MatchPrefix(lit, s) == Len(s) >= Len(lit) /\ SubSeq(s, 1, Len(lit)) = lit
\* What re.match does with the pattern "^.*<lit>$": "." matches any character
\* but a newline, and "$" matches at the end of the string or right before a
\* newline that ends it.
MatchSuffix(lit, s) ==
    \E i \in 0..Len(s) :
        /\ \A j \in 1..i : s[j] # "\n"
        /\ i + Len(lit) <= Len(s)
        /\ SubSeq(s, i + 1, i + Len(lit)) = lit
        /\ \/ i + Len(lit) = Len(s)
           \/ i + Len(lit) = Len(s) - 1 /\ s[Len(s)] = "\n"

\* ------------------------------------------------------------ normalization
\* coalesce returning the last non-empty argument instead of the first.
coalesce_last(args) ==
    IF \E i \in 1..Len(args) : Truthy(args[i])
    THEN args[CHOOSE i \in 1..Len(args) :
                 Truthy(args[i]) /\ \A j \in (i + 1)..Len(args) : ~Truthy(args[j])]
    ELSE <<>>

coalesce(args) ==
    IF \E i \in 1..Len(args) : Truthy(args[i])
    THEN args[CHOOSE i \in 1..Len(args) :
                 Truthy(args[i]) /\ \A j \in 1..(i - 1) : ~Truthy(args[j])]
    ELSE <<>>

\* str.join: the items with the separator between each two of them.
RECURSIVE Join(_, _)
Join(separator, items) ==
    IF Len(items) = 0 THEN <<>>
    ELSE IF Len(items) = 1 THEN items[1]
    ELSE items[1] \o separator \o Join(separator, Tail(items))

\* concatenate_tags dropping only the missing tags, not the empty ones.
concatenate_tags_keep_empty(tags, separator) ==
    LET present(t) == t # None
    IN  Join(separator, SelectSeq(tags, present))

concatenate_tags(tags, separator) ==
    LET non_none_tags == SelectSeq(tags, Truthy)
    IN  Join(separator, non_none_tags)

\* tags_to_ignore without the pattern of the name tags.
tags_to_ignore_no_name ==
    << [kind |-> "prefix", lit |-> lit_source],
       [kind |-> "prefix", lit |-> lit_ref],
       [kind |-> "suffix", lit |-> lit_phone],
       [kind |-> "prefix", lit |-> lit_addr] >>

\* The five compiled patterns of keep_key, in order; each is the kind of the
\* pattern and its literal.
tags_to_ignore ==
    << [kind |-> "prefix", lit |-> lit_name],
       [kind |-> "prefix", lit |-> lit_source],
       [kind |-> "prefix", lit |-> lit_ref],
       [kind |-> "suffix", lit |-> lit_phone],
       [kind |-> "prefix", lit |-> lit_addr] >>

PatternMatch(pattern, tag) ==
    IF pattern.kind = "prefix" THEN MatchPrefix(pattern.lit, tag)
    ELSE MatchSuffix(pattern.lit, tag)

keep_key(tag) ==
    ~ \E i \in 1..Len(tags_to_ignore) : PatternMatch(tags_to_ignore[i], tag)

\* Lines 109-113: the kept tags and the four name fields.
NameFields(p) ==
    LET r0 == [key \in {k \in DOMAIN p : keep_key(k)} |-> p[key]]
        r1 == SetItem(r0, k_name_pl, coalesce(<<Get(p, k_name_pl), Get(p, k_name)>>))
        r2 == SetItem(r1, k_name_uk,
                      coalesce(<<Get(p, k_name_uk), Get(p, k_name_ua), Get(p, k_name)>>))
        r3 == SetItem(r2, k_name_en, coalesce(<<Get(p, k_name_en), Get(p, k_name)>>))
    IN  SetItem(r3, k_name_ru, coalesce(<<Get(p, k_name_ru), Get(p, k_name)>>))

\* AddressField without the space that follows addr:street.
AddressField_no_space(p, results) ==
    IF Truthy(Get(p, k_addr_housenumber))
    THEN SetItem(results, k_address,
                 coalesce(<<Get(p, k_addr_city), Get(p, k_addr_place)>>) \o <<" ">>
                 \o (IF Truthy(GetDefault(p, k_addr_street, <<>>))
                     THEN GetDefault(p, k_addr_street, <<>>)
                     ELSE <<>>)
                 \o Get(p, k_addr_housenumber))
    ELSE results

\* Lines 115-120: the address field, computed when addr:housenumber is truthy.
AddressField(p, results) ==
    IF Truthy(Get(p, k_addr_housenumber))
    THEN SetItem(results, k_address,
                 coalesce(<<Get(p, k_addr_city), Get(p, k_addr_place)>>) \o <<" ">>
                 \o (IF Truthy(GetDefault(p, k_addr_street, <<>>))
                     THEN GetDefault(p, k_addr_street, <<>>) \o <<" ">>
                     ELSE <<>>)
                 \o Get(p, k_addr_housenumber))
    ELSE results

\* Line 122: the phone field.
PhoneField(p, results) ==
    SetItem(results, k_phone,
            concatenate_tags(<<Get(p, k_phone), Get(p, k_contact_phone)>>, <<";">>))

\* process_feature_properties reading the tags with properties.get("tags", {}).
process_feature_properties_default(properties) ==
    LET p == IF "tags" \in DOMAIN properties THEN properties["tags"] ELSE [k \in {} |-> <<>>]
    IN  Return(PhoneField(p, AddressField(p, NameFields(p))))

\* properties["tags"] raises KeyError when the key is missing.
process_feature_properties(properties) ==
    IF "tags" \notin DOMAIN properties THEN Raise("KeyError")
    ELSE LET p == properties["tags"]
         IN  Return(PhoneField(p, AddressField(p, NameFields(p))))

\* The list comprehension of process_geojson: it raises at the first feature
\* whose properties raise, and then no collection is built.
process_geojson(data) ==
    LET features == data["features"]
        outcome(i) == process_feature_properties(features[i]["properties"])
    IN  IF \E i \in 1..Len(features) : outcome(i).exc # "none"
        THEN Raise(outcome(CHOOSE i \in 1..Len(features) :
                               /\ outcome(i).exc # "none"
                               /\ \A j \in 1..(i - 1) : outcome(j).exc = "none").exc)
        ELSE Return([type |-> "FeatureCollection",
                     features |-> [i \in 1..Len(features) |->
                                      [type |-> "Feature",
                                       properties |-> outcome(i).value,
                                       geometry |-> features[i]["geometry"]]]])

\* ------------------------------------------------------------ layer split
\* The nine lambdas of routers.
reception_points(p) == GetDefault(p, k_social_facility_for, <<>>) \in {v_refugee, v_refugees}
information_points(p) == GetDefault(p, k_information_for, <<>>) \in {v_refugee, v_refugees}
blood_donation_points(p) == GetDefault(p, k_healthcare, <<>>) = v_blood_donation
social_facilities(p) == GetDefault(p, k_social_facility, <<>>) \in {v_food_bank, v_soup_kitchen}
pharmacies(p) == GetDefault(p, k_amenity, <<>>) = v_pharmacy
hospitals(p) == GetDefault(p, k_amenity, <<>>) = v_hospital
consulates(p) ==
    GetDefault(p, k_office, <<>>) = v_diplomatic /\ GetDefault(p, k_country, <<>>) = v_UA
train_stations(p) == GetDefault(p, k_building, <<>>) = v_train_station
bus_stations(p) == GetDefault(p, k_amenity, <<>>) = v_bus_station

\* The keys of routers, in the order of the dict literal.
routers ==
    << n_reception_points, n_information_points, n_blood_donation_points,
       n_social_facilities, n_pharmacies, n_hospitals, n_consulates,
       n_train_stations, n_bus_stations >>

\* routers[layer_name](p).
test(layer_name, p) ==
    CASE layer_name = n_reception_points -> reception_points(p)
      [] layer_name = n_information_points -> information_points(p)
      [] layer_name = n_blood_donation_points -> blood_donation_points(p)
      [] layer_name = n_social_facilities -> social_facilities(p)
      [] layer_name = n_pharmacies -> pharmacies(p)
      [] layer_name = n_hospitals -> hospitals(p)
      [] layer_name = n_consulates -> consulates(p)
      [] layer_name = n_train_stations -> train_stations(p)
      [] layer_name = n_bus_stations -> bus_stations(p)

\* The result of split_geojson is a dict in insertion order: a sequence of
\* entries [key, value]. The place of a key in it, 0 when the key is missing.
IndexOf(results, key) ==
    IF \E i \in 1..Len(results) : results[i].key = key
    THEN CHOOSE i \in 1..Len(results) : results[i].key = key
    ELSE 0

\* AddToLayer replacing the layer's features by the feature instead of appending.
AddToLayer_overwrite(results, layer_name, feature) ==
    LET i == IndexOf(results, layer_name)
    IN  IF i # 0
        THEN [results EXCEPT ![i].value.features = <<feature>>]
        ELSE Append(results,
                    [key |-> layer_name,
                     value |-> [type |-> "FeatureCollection", features |-> <<feature>>]])

\* Lines 206-212: the feature joins the layer's features, or starts the layer.
AddToLayer(results, layer_name, feature) ==
    LET i == IndexOf(results, layer_name)
    IN  IF i # 0 /\ DOMAIN results[i].value # {}
        THEN [results EXCEPT ![i].value.features = Append(@, feature)]
        ELSE IF i # 0
        THEN [results EXCEPT ![i].value =
                  [type |-> "FeatureCollection", features |-> <<feature>>]]
        ELSE Append(results,
                    [key |-> layer_name,
                     value |-> [type |-> "FeatureCollection", features |-> <<feature>>]])

\* Line 204-205: one feature against the routers from the j-th on.
RECURSIVE RouteFeature(_, _, _)
RouteFeature(results, feature, j) ==
    IF j > Len(routers) THEN results
    ELSE RouteFeature(IF test(routers[j], feature["properties"])
                      THEN AddToLayer(results, routers[j], feature)
                      ELSE results,
                      feature, j + 1)

\* Line 203: the features from the i-th on.
RECURSIVE SplitFrom(_, _, _)
SplitFrom(results, features, i) ==
    IF i > Len(features) THEN results
    ELSE SplitFrom(RouteFeature(results, features[i], 1), features, i + 1)

split_geojson(geojson) == SplitFrom(<<>>, geojson["features"], 1)

\* ------------------------------------------------------------ environment
\* The directory of the script, the default output directory.
this_files_dir == "this_files_dir"
\* The paths a caller may give: a directory, a regular file, a path that does
\* not exist.
Paths == {"out", "notes.txt", "missing"}
\* Path.exists() in the place of Path.is_dir().
is_dir_exists(path) == path # "missing"
\* Path.is_dir(): true of an existing directory only.
is_dir(path) == path \in {this_files_dir, "out"}
\* The command lines: sys.argv[0] alone, or with one path.
CommandLines == {<<"download_data.py">>} \cup {<<"download_data.py", path>> : path \in Paths}

\* An empty dict.
EmptyDict == [k \in {} |-> <<>>]
\* The value of a variable that nothing has been assigned to yet.
NoData == [type |-> "None"]

\* The dicts of at most n entries with keys in keys and, for key k, a value in vals[k].
RECURSIVE Dicts(_, _, _)
Dicts(keys, vals, n) ==
    IF n = 0 THEN {EmptyDict}
    ELSE LET smaller == Dicts(keys, vals, n - 1)
         IN  smaller \cup UNION {{SetItem(d, k, v) : v \in vals[k]} :
                                     d \in smaller, k \in keys}

\* The tags normalization is checked on: every key the code reads or drops, a
\* key of each pattern, keys that only resemble a pattern, and for each key an
\* empty value where the code tests for one.
NormalizeKeys ==
    { k_name, k_name_pl, k_name_uk, k_name_ua, k_name_en, k_name_ru, k_source, k_ref,
      k_phone, k_contact_phone, k_nl_phone, k_phone_nl,
      k_addr_housenumber, k_addr_city, k_addr_place, k_addr_street, k_address, k_addr,
      k_amenity }
NormalizeValues ==
    [k \in NormalizeKeys |->
        CASE k = k_name -> {<<>>, v_N}
          [] k = k_name_pl -> {<<>>, v_pl}
          [] k = k_name_uk -> {<<>>, v_uk}
          [] k = k_name_ua -> {<<>>, v_ua}
          [] k = k_name_en -> {<<>>, v_en}
          [] k = k_name_ru -> {<<>>, v_ru}
          [] k = k_phone -> {<<>>, v_111}
          [] k = k_contact_phone -> {<<>>, v_222}
          [] k = k_addr_housenumber -> {<<>>, v_5}
          [] k = k_addr_city -> {<<>>, v_X}
          [] k = k_addr_place -> {<<>>, v_P}
          [] k = k_addr_street -> {<<>>, v_Main}
          [] k = k_address -> {v_old}
          [] k = k_amenity -> {v_pharmacy}
          [] OTHER -> {v_osm}]
NormalizeTags == Dicts(NormalizeKeys, NormalizeValues, MaxTags)

\* The tags the whole run is checked on: for each layer the values its test
\* accepts and a value it rejects, features of two layers, and the tags
\* normalization rewrites.
SplitTags ==
    { EmptyDict,
      (k_social_facility_for :> v_refugee), (k_social_facility_for :> v_refugees),
      (k_information_for :> v_refugee), (k_information_for :> v_refugees),
      (k_healthcare :> v_blood_donation),
      (k_social_facility :> v_food_bank), (k_social_facility :> v_soup_kitchen),
      (k_social_facility :> v_outreach),
      (k_amenity :> v_pharmacy), (k_amenity :> v_hospital), (k_amenity :> v_bus_station),
      (k_building :> v_train_station),
      (k_office :> v_diplomatic), (k_country :> v_UA),
      (k_office :> v_diplomatic) @@ (k_country :> v_UA),
      (k_office :> v_diplomatic) @@ (k_country :> v_PL),
      (k_amenity :> v_pharmacy) @@ (k_healthcare :> v_blood_donation),
      (k_social_facility :> v_food_bank) @@ (k_social_facility_for :> v_refugees),
      (k_amenity :> v_hospital) @@ (k_name :> v_N) @@ (k_phone :> v_111)
          @@ (k_addr_housenumber :> v_5) }

\* An element of the response: its id is its place; it has tags, or none.
Element(id, tags) == [type |-> "node", id |-> id, tags |-> tags]
ElementNoTags(id) == [type |-> "node", id |-> id]
\* The parsed bodies of at most n elements, each with tags of tagsets or
\* without tags.
Bodies(tagsets, n) ==
    LET kinds == {[tags |-> t] : t \in tagsets} \cup {[untagged |-> TRUE]}
    IN  UNION { { [elements |-> [i \in 1..len |->
                                    IF "tags" \in DOMAIN c[i] THEN Element(i, c[i].tags)
                                    ELSE ElementNoTags(i)]] :
                    c \in [1..len -> kinds] } : len \in 0..n }

\* What requests.post may give: no response at all (status 0: it raises
\* ConnectionError), or a response with a status and a body, which json()
\* parses or rejects.
Responses ==
    {[status_code |-> 0, json |-> FALSE, body |-> NoData]} \cup
    {[status_code |-> 200, json |-> TRUE, body |-> b] : b \in Bodies(SplitTags, MaxFeatures)}
    \cup {[status_code |-> s, json |-> FALSE, body |-> NoData] : s \in {200, 404, 504}}
    \cup {[status_code |-> s, json |-> TRUE, body |-> b] :
              s \in {404, 504}, b \in Bodies({(k_amenity :> v_pharmacy)}, 1)}

\* query_overpass_api without the call of raise_for_status.
raise_for_status_never(status_code) == FALSE
\* Response.raise_for_status(): HTTPError for a 4xx or 5xx status.
raise_for_status(status_code) == status_code >= 400 /\ status_code < 600

\* json2geojson of osm2geojson: one feature per element, in order, its
\* properties the element's type, id and (when it has some) tags, its geometry
\* derived from the element.
json2geojson(data) ==
    [type |-> "FeatureCollection",
     features |-> [i \in 1..Len(data.elements) |->
                      [type |-> "Feature",
                       properties |-> data.elements[i],
                       geometry |-> [type |-> "Point",
                                     coordinates |-> <<data.elements[i].id, 0>>]]]]

\* output_dir.joinpath(name + '.geojson'), inside the fixed output directory.
layer_path(name) == name \o ext_geojson

\* ------------------------------------------------------------ state
VARIABLES
    pc,             \* where the run is: start, main, queried, converted,
                    \* processed, saved, split, exited
    argv,           \* sys.argv
    output_dir,     \* the output directory of the run
    posts,          \* the HTTP POSTs sent
    status,         \* the status of the response, 0 before there is one
    data,           \* main's data: the parsed response
    geojson_data,   \* main's geojson_data
    processed_data, \* main's processed_data
    layers,         \* main's layers, a dict in insertion order
    n,              \* the place in layers.items() of the loop of main
    files,          \* the output directory: path -> what the file holds
    saves,          \* the calls of save_json so far: path, data and outcome
    log,            \* the records logged
    exc,            \* the exception that ended the run, "none" if none did
    exitcode        \* the exit status, -1 while the run goes on

vars == <<pc, argv, output_dir, posts, status, data, geojson_data, processed_data,
          layers, n, files, saves, log, exc, exitcode>>

\* What save_json may meet: the file is written; open() raises and the file is
\* left as it was; json.dump raises after open() has truncated the file.
SaveOutcomes == {"ok", "open_error", "dump_error"}

\* Lines 73-77 on the files: mode "w" truncates, json.dump writes the whole of data.
save_json(fs, file_path, d, outcome) ==
    CASE outcome = "ok" -> SetItem(fs, file_path, [complete |-> TRUE, data |-> d])
      [] outcome = "dump_error" -> SetItem(fs, file_path, [complete |-> FALSE, data |-> NoData])
      [] outcome = "open_error" -> fs

\* The records save_json logs.
save_log(lg, outcome) ==
    IF outcome = "ok" THEN lg \o <<"INFO Saving .json file.", "INFO Done saving json file.">>
    ELSE Append(lg, "INFO Saving .json file.")

\* The records split_geojson logs: the features, the layers, each layer.
split_log(lg, geojson, results) ==
    lg \o << <<"INFO Splitting geojson", Len(geojson["features"])>>,
             <<"INFO Results have layers", Len(results)>> >>
       \o [i \in 1..Len(results) |->
              <<"INFO Layer", results[i].key, Len(results[i].value["features"])>>]

\* An uncaught exception ends the process with status 1.
Crash(e) == pc' = "exited" /\ exc' = e /\ exitcode' = 1

Init ==
    /\ pc = "start"
    /\ argv \in CommandLines
    /\ output_dir = ""
    /\ posts = 0
    /\ status = 0
    /\ data = NoData
    /\ geojson_data = NoData
    /\ processed_data = NoData
    /\ layers = <<>>
    /\ n = 0
    /\ files = EmptyDict
    /\ saves = <<>>
    /\ log = <<>>
    /\ exc = "none"
    /\ exitcode = -1

\* Lines 233-240: the output directory is the argument or the script's own
\* directory; main runs when it is a directory.
Entry ==
    /\ pc = "start"
    /\ LET dir == IF Len(argv) > 1 THEN argv[2] ELSE this_files_dir
       IN  /\ output_dir' = dir
           /\ IF ~is_dir(dir)
              THEN /\ log' = Append(log, "ERROR Given path is not a directory.")
                   /\ pc' = "exited"
                   /\ exitcode' = 1
              ELSE /\ pc' = "main"
                   /\ UNCHANGED <<log, exitcode>>
    /\ UNCHANGED <<argv, posts, status, data, geojson_data, processed_data,
                   layers, n, files, saves, exc>>

\* Lines 66-70 on a response: the exception raised, "none" when json() returns.
query_exception(response) ==
    IF response.status_code = 0 THEN "ConnectionError"
    ELSE IF raise_for_status(response.status_code) THEN "HTTPError"
    ELSE IF ~response.json THEN "JSONDecodeError"
    ELSE "none"

\* Line 222, query_overpass_api: one POST, raise_for_status, json().
Query ==
    /\ pc = "main"
    /\ posts' = posts + 1
    /\ \E response \in Responses :
          /\ status' = response.status_code
          /\ IF query_exception(response) # "none"
             THEN /\ Crash(query_exception(response))
                  /\ log' = IF query_exception(response) = "JSONDecodeError"
                            THEN log \o <<"INFO Requesting data from Overpass API.",
                                          "INFO Downloaded data from Overpass API.">>
                            ELSE Append(log, "INFO Requesting data from Overpass API.")
                  /\ UNCHANGED data
             ELSE /\ data' = response.body
                  /\ log' = log \o <<"INFO Requesting data from Overpass API.",
                                     "INFO Downloaded data from Overpass API.">>
                  /\ pc' = "queried"
                  /\ UNCHANGED <<exc, exitcode>>
    /\ UNCHANGED <<argv, output_dir, geojson_data, processed_data, layers, n, files, saves>>

\* Line 223.
Convert ==
    /\ pc = "queried"
    /\ geojson_data' = json2geojson(data)
    /\ pc' = "converted"
    /\ UNCHANGED <<argv, output_dir, posts, status, data, processed_data, layers, n,
                   files, saves, log, exc, exitcode>>

\* Line 224.
Process ==
    /\ pc = "converted"
    /\ LET r == process_geojson(geojson_data)
       IN  IF r.exc # "none"
           THEN Crash(r.exc) /\ UNCHANGED processed_data
           ELSE /\ processed_data' = r.value
                /\ pc' = "processed"
                /\ UNCHANGED <<exc, exitcode>>
    /\ UNCHANGED <<argv, output_dir, posts, status, data, geojson_data, layers, n,
                   files, saves, log>>

\* Line 225.
SaveAll ==
    /\ pc = "processed"
    /\ \E outcome \in SaveOutcomes :
          /\ files' = save_json(files, n_osm_data_geojson, processed_data, outcome)
          /\ saves' = Append(saves, [path |-> n_osm_data_geojson,
                                     data |-> processed_data, outcome |-> outcome])
          /\ log' = save_log(log, outcome)
          /\ IF outcome = "ok"
             THEN pc' = "saved" /\ UNCHANGED <<exc, exitcode>>
             ELSE Crash(IF outcome = "open_error" THEN "OSError" ELSE "ValueError")
    /\ UNCHANGED <<argv, output_dir, posts, status, data, geojson_data, processed_data,
                   layers, n>>

\* Line 226.
Split ==
    /\ pc = "saved"
    /\ layers' = split_geojson(processed_data)
    /\ log' = split_log(log, processed_data, layers')
    /\ n' = 1
    /\ pc' = "split"
    /\ UNCHANGED <<argv, output_dir, posts, status, data, geojson_data, processed_data,
                   files, saves, exc, exitcode>>

\* SaveLayer going on with the next layer after a failed write.
SaveLayer_continue ==
    /\ pc = "split"
    /\ n <= Len(layers)
    /\ \E outcome \in SaveOutcomes :
          /\ files' = save_json(files, layer_path(layers[n].key), layers[n].value, outcome)
          /\ saves' = Append(saves, [path |-> layer_path(layers[n].key),
                                     data |-> layers[n].value, outcome |-> outcome])
          /\ log' = save_log(log, outcome)
          /\ n' = n + 1
    /\ UNCHANGED <<pc, exc, exitcode, argv, output_dir, posts, status, data, geojson_data,
                   processed_data, layers>>

\* Lines 227-228: one turn of the loop.
SaveLayer ==
    /\ pc = "split"
    /\ n <= Len(layers)
    /\ \E outcome \in SaveOutcomes :
          /\ files' = save_json(files, layer_path(layers[n].key), layers[n].value, outcome)
          /\ saves' = Append(saves, [path |-> layer_path(layers[n].key),
                                     data |-> layers[n].value, outcome |-> outcome])
          /\ log' = save_log(log, outcome)
          /\ IF outcome = "ok"
             THEN n' = n + 1 /\ UNCHANGED <<pc, exc, exitcode>>
             ELSE /\ Crash(IF outcome = "open_error" THEN "OSError" ELSE "ValueError")
                  /\ UNCHANGED n
    /\ UNCHANGED <<argv, output_dir, posts, status, data, geojson_data, processed_data,
                   layers>>

\* The loop is over, main returns and the process ends.
Finish ==
    /\ pc = "split"
    /\ n > Len(layers)
    /\ pc' = "exited"
    /\ exitcode' = 0
    /\ UNCHANGED <<argv, output_dir, posts, status, data, geojson_data, processed_data,
                   layers, n, files, saves, log, exc>>

Next == Entry \/ Query \/ Convert \/ Process \/ SaveAll \/ Split \/ SaveLayer \/ Finish

\* A run of the script.
Spec == Init /\ [][Next]_vars

\* The state main is in after line 223 when the response is this one.
Converted(response) ==
    /\ pc = "converted"
    /\ argv = <<"download_data.py">>
    /\ output_dir = this_files_dir
    /\ posts = 1
    /\ status = response.status_code
    /\ data = response.body
    /\ geojson_data = json2geojson(response.body)
    /\ processed_data = NoData
    /\ layers = <<>>
    /\ n = 0
    /\ files = EmptyDict
    /\ saves = <<>>
    /\ log = <<"INFO Requesting data from Overpass API.",
               "INFO Downloaded data from Overpass API.">>
    /\ exc = "none"
    /\ exitcode = -1

\* The run from line 224 on, on a response of at most one element with any
\* of NormalizeTags or without tags.
InitNormalize ==
    \E b \in Bodies(NormalizeTags, 1) :
        Converted([status_code |-> 200, json |-> TRUE, body |-> b])

NextNormalize == Process \/ SaveAll \/ Split \/ SaveLayer \/ Finish

SpecNormalize == InitNormalize /\ [][NextNormalize]_vars

\* ======================================================== the claims
\* What the claims are stated in: the input and the output of normalization,
\* feature by feature, and the words of the specification, written out
\* without the operators of the model.
HasConverted == geojson_data.type = "FeatureCollection"
Normalized == processed_data.type = "FeatureCollection"
Features == IF Normalized THEN 1..Len(processed_data.features) ELSE {}
\* The raw tags of the i-th feature and its normalized properties.
Tags(i) == geojson_data.features[i].properties.tags
Props(i) == processed_data.features[i].properties
\* A tag that is present with a non-empty value.
NonEmpty(t, k) == k \in DOMAIN t /\ t[k] # <<>>
\* The first non-empty value among the tags of the keys, else the empty string.
RECURSIVE FirstNonEmpty(_, _)
FirstNonEmpty(t, keys) ==
    IF keys = <<>> THEN <<>>
    ELSE IF NonEmpty(t, Head(keys)) THEN t[Head(keys)]
    ELSE FirstNonEmpty(t, Tail(keys))
StartsWith(s, prefix) ==
    Len(s) >= Len(prefix) /\ \A j \in 1..Len(prefix) : s[j] = prefix[j]
EndsWith(s, suffix) ==
    Len(s) >= Len(suffix)
    /\ \A j \in 1..Len(suffix) : s[Len(s) - Len(suffix) + j] = suffix[j]
NameKeys == {k_name_pl, k_name_uk, k_name_en, k_name_ru}
SeqRange(s) == {s[i] : i \in 1..Len(s)}

\* C2: every normalized feature has the four name keys, each the first
\* non-empty value of its fallback chain or the empty string, and no other
\* key that starts with "name"; so has every feature of every file written
\* and of every layer.
C2_FourNames(props) ==
    {k \in DOMAIN props : StartsWith(k, lit_name)} = NameKeys
C2_NameKeys ==
    /\ \A i \in Features :
          /\ C2_FourNames(Props(i))
          /\ Props(i)[k_name_pl] = FirstNonEmpty(Tags(i), <<k_name_pl, k_name>>)
          /\ Props(i)[k_name_uk] = FirstNonEmpty(Tags(i), <<k_name_uk, k_name_ua, k_name>>)
          /\ Props(i)[k_name_en] = FirstNonEmpty(Tags(i), <<k_name_en, k_name>>)
          /\ Props(i)[k_name_ru] = FirstNonEmpty(Tags(i), <<k_name_ru, k_name>>)
    /\ \A path \in DOMAIN files :
          files[path].complete =>
              \A f \in SeqRange(files[path].data.features) : C2_FourNames(f.properties)
    /\ \A e \in SeqRange(layers) :
          \A f \in SeqRange(e.value.features) : C2_FourNames(f.properties)
\* A feature with a raw name:de-like key (name:ua) and no name:pl tag has been
\* normalized, and written to a layer file.
C2_Witness ==
    /\ pc = "exited" /\ exitcode = 0 /\ Len(layers) = 1
    /\ Features = {1}
    /\ NonEmpty(Tags(1), k_name_ua) /\ NonEmpty(Tags(1), k_name)
    /\ k_name_pl \notin DOMAIN Tags(1)
    /\ Props(1)[k_name_pl] = v_N

\* C3 as stated: with none of name:pl, name:uk, name:ru, name:en but a name
\* tag, all four normalized fields equal the name, whatever the other tags.
C3_Lacking(t) == NameKeys \cap DOMAIN t = {} /\ k_name \in DOMAIN t
C3_Original ==
    \A i \in Features :
        C3_Lacking(Tags(i)) => \A k \in NameKeys : Props(i)[k] = Tags(i)[k_name]
\* C3 as amended: name:pl, name:en and name:ru equal the name, and so does
\* name:uk unless a non-empty name:ua tag is present, which it then equals.
C3_Amended ==
    \A i \in Features :
        C3_Lacking(Tags(i)) =>
            /\ \A k \in NameKeys \ {k_name_uk} : Props(i)[k] = Tags(i)[k_name]
            /\ Props(i)[k_name_uk] =
                  IF NonEmpty(Tags(i), k_name_ua) THEN Tags(i)[k_name_ua]
                  ELSE Tags(i)[k_name]
\* A feature with a name, a name:ua and another tag has been normalized.
C3_Witness ==
    /\ Features = {1}
    /\ C3_Lacking(Tags(1))
    /\ Tags(1)[k_name] = v_N
    /\ NonEmpty(Tags(1), k_name_ua)
    /\ k_amenity \in DOMAIN Tags(1)
    /\ Props(1)[k_name_en] = v_N

\* C4 as stated: the keys of the normalized properties are the raw keys that
\* match no exclusion pattern and the synthesized keys; no raw key that starts
\* with name, source, ref or addr: or ends with phone is in the output unless
\* it is a synthesized key; every other raw key is copied with its value
\* unless a synthesized key overwrites it.
C4_Excluded(k) ==
    \/ StartsWith(k, lit_name) \/ StartsWith(k, lit_source) \/ StartsWith(k, lit_ref)
    \/ StartsWith(k, lit_addr) \/ EndsWith(k, lit_phone)
C4_Synthesized(t) ==
    NameKeys \cup {k_phone} \cup (IF NonEmpty(t, k_addr_housenumber) THEN {k_address} ELSE {})
C4_Claim ==
    \A i \in Features :
        /\ DOMAIN Props(i) =
              {k \in DOMAIN Tags(i) : ~C4_Excluded(k)} \cup C4_Synthesized(Tags(i))
        /\ \A k \in DOMAIN Tags(i) :
              /\ C4_Excluded(k) /\ k \notin C4_Synthesized(Tags(i)) => k \notin DOMAIN Props(i)
              /\ ~C4_Excluded(k) /\ k \notin C4_Synthesized(Tags(i)) =>
                     k \in DOMAIN Props(i) /\ Props(i)[k] = Tags(i)[k]

\* C5 as stated: the output has an address key if and only if the tags have
\* an addr:housenumber tag, and then address is coalesce(addr:city,
\* addr:place), a space, addr:street and a space if addr:street is present,
\* and addr:housenumber.
C5_Address(t, street) ==
    FirstNonEmpty(t, <<k_addr_city, k_addr_place>>) \o <<" ">>
    \o (IF street THEN t[k_addr_street] \o <<" ">> ELSE <<>>) \o t[k_addr_housenumber]
C5_Original ==
    \A i \in Features :
        /\ k_address \in DOMAIN Props(i) <=> k_addr_housenumber \in DOMAIN Tags(i)
        /\ k_addr_housenumber \in DOMAIN Tags(i) =>
              Props(i)[k_address] = C5_Address(Tags(i), k_addr_street \in DOMAIN Tags(i))
\* C5 as amended: the output has an address key if and only if the tags have
\* a non-empty addr:housenumber or a raw address tag; with a non-empty
\* addr:housenumber, address is the computed string, addr:street and its
\* space being added when addr:street is non-empty; otherwise an address in
\* the output is the raw address tag, unchanged.
C5_Amended ==
    \A i \in Features :
        /\ k_address \in DOMAIN Props(i) <=>
              NonEmpty(Tags(i), k_addr_housenumber) \/ k_address \in DOMAIN Tags(i)
        /\ NonEmpty(Tags(i), k_addr_housenumber) =>
              Props(i)[k_address] = C5_Address(Tags(i), NonEmpty(Tags(i), k_addr_street))
        /\ ~NonEmpty(Tags(i), k_addr_housenumber) /\ k_address \in DOMAIN Tags(i) =>
              Props(i)[k_address] = Tags(i)[k_address]
\* addr:city X, addr:street Main, addr:housenumber 5 give "X Main 5".
C5_Witness ==
    /\ Features = {1}
    /\ Tags(1) = (k_addr_city :> v_X) @@ (k_addr_street :> v_Main) @@ (k_addr_housenumber :> v_5)
    /\ Props(1)[k_address] = <<"X", " ", "M", "a", "i", "n", " ", "5">>

\* C6: phone is always present and is the non-empty values among the tags
\* phone and contact:phone, in that order, joined by ";": both give
\* "phone;contact:phone", one gives that value alone, none gives "".
C6_Phone ==
    \A i \in Features :
        /\ k_phone \in DOMAIN Props(i)
        /\ Props(i)[k_phone] =
              IF NonEmpty(Tags(i), k_phone) /\ NonEmpty(Tags(i), k_contact_phone)
              THEN Tags(i)[k_phone] \o <<";">> \o Tags(i)[k_contact_phone]
              ELSE IF NonEmpty(Tags(i), k_phone) THEN Tags(i)[k_phone]
              ELSE IF NonEmpty(Tags(i), k_contact_phone) THEN Tags(i)[k_contact_phone]
              ELSE <<>>
\* phone 111 and contact:phone 222 give "111;222".
C6_Witness ==
    /\ Features = {1}
    /\ Tags(1) = (k_phone :> v_111) @@ (k_contact_phone :> v_222)
    /\ Props(1)[k_phone] = <<"1", "1", "1", ";", "2", "2", "2">>

\* The table of section 4.4: for each layer the tag and the values accepted;
\* consulates asks for two tags.
LayerRule(name, p) ==
    LET has(k, vs) == k \in DOMAIN p /\ p[k] \in vs
    IN  CASE name = n_reception_points -> has(k_social_facility_for, {v_refugee, v_refugees})
          [] name = n_information_points -> has(k_information_for, {v_refugee, v_refugees})
          [] name = n_blood_donation_points -> has(k_healthcare, {v_blood_donation})
          [] name = n_social_facilities -> has(k_social_facility, {v_food_bank, v_soup_kitchen})
          [] name = n_pharmacies -> has(k_amenity, {v_pharmacy})
          [] name = n_hospitals -> has(k_amenity, {v_hospital})
          [] name = n_consulates -> has(k_office, {v_diplomatic}) /\ has(k_country, {v_UA})
          [] name = n_train_stations -> has(k_building, {v_train_station})
          [] name = n_bus_stations -> has(k_amenity, {v_bus_station})
LayerNames ==
    { n_reception_points, n_information_points, n_blood_donation_points,
      n_social_facilities, n_pharmacies, n_hospitals, n_consulates,
      n_train_stations, n_bus_stations }
\* The features of the collection that satisfy the layer's rule, in order.
RECURSIVE Matching(_, _)
Matching(name, features) ==
    IF features = <<>> THEN <<>>
    ELSE (IF LayerRule(name, Head(features).properties) THEN <<Head(features)>> ELSE <<>>)
         \o Matching(name, Tail(features))
\* split_geojson has returned.
SplitDone == n >= 1
LayerKeys == {layers[e].key : e \in 1..Len(layers)}

\* C1: the result of split_geojson has a layer as a key if and only if a
\* feature satisfies the layer's rule, its features are then the features
\* that satisfy the rule, in input order, and a feature that satisfies k
\* rules is in exactly k layers.
C1_SplitIsFilter ==
    SplitDone =>
        /\ LayerKeys \subseteq LayerNames
        /\ \A e1, e2 \in 1..Len(layers) : layers[e1].key = layers[e2].key => e1 = e2
        /\ \A name \in LayerNames :
              name \in LayerKeys <=> Matching(name, processed_data.features) # <<>>
        /\ \A e \in 1..Len(layers) :
              /\ layers[e].value.type = "FeatureCollection"
              /\ layers[e].value.features = Matching(layers[e].key, processed_data.features)
        /\ \A i \in Features :
              Cardinality({e \in 1..Len(layers) :
                              processed_data.features[i] \in SeqRange(layers[e].value.features)})
              = Cardinality({name \in LayerNames : LayerRule(name, Props(i))})
\* A pharmacy that is a blood donation point was split with a feature of no
\* layer: two layers of one feature each.
C1_Witness ==
    /\ SplitDone
    /\ Features = {1, 2}
    /\ Tags(1) = EmptyDict
    /\ Tags(2) = (k_amenity :> v_pharmacy) @@ (k_healthcare :> v_blood_donation)
    /\ LayerKeys = {n_pharmacies, n_blood_donation_points}
    /\ \A e \in 1..Len(layers) : Len(layers[e].value.features) = 1

\* The command line names a path that is not an existing directory.
BadOutputPath == Len(argv) > 1 /\ argv[2] \in {"notes.txt", "missing"}
ErrorLogged == \E i \in 1..Len(log) : log[i] = "ERROR Given path is not a directory."

\* C7: with an output path that does not exist or is not a directory the
\* process logs an error and exits with a non-zero status before the
\* pipeline starts: no HTTP request is sent and no file write is attempted.
C7_BadPathExits ==
    BadOutputPath =>
        /\ posts = 0 /\ status = 0
        /\ saves = <<>> /\ files = EmptyDict
        /\ pc \in {"start", "exited"}
        /\ pc = "exited" => exitcode = 1 /\ exitcode # 0 /\ ErrorLogged /\ exc = "none"
\* The run with a path that does not exist has ended.
C7_Witness == argv = <<"download_data.py", "missing">> /\ pc = "exited" /\ exitcode = 1

\* The response has a non-success status.
ErrorStatus == status >= 400 /\ status <= 599

\* C8: the query stage sends exactly one POST; with a non-success status the
\* run aborts with that error, nothing is sent again and no file is written.
C8_OnePostNoRetry ==
    /\ posts <= 1
    /\ status # 0 => posts = 1
    /\ pc \notin {"start", "main"} /\ ~ErrorLogged => posts = 1
    /\ ErrorStatus =>
          /\ pc = "exited" /\ exc = "HTTPError" /\ exitcode = 1
          /\ saves = <<>> /\ files = EmptyDict
          /\ data = NoData
\* The API has answered 504 with a body that parses, and the run has ended.
C8_Witness == status = 504 /\ posts = 1 /\ pc = "exited" /\ exc = "HTTPError"

\* The paths of the files of the layers no feature-less layer is among.
NonEmptyLayerPaths ==
    {name \o ext_geojson :
        name \in {l \in LayerNames : Matching(l, processed_data.features) # <<>>}}
Written(i) == saves[i].outcome = "ok"

\* C9: the files are written osm_data.geojson first and then the file of
\* each non-empty layer, and of no other layer; when a write fails the run
\* aborts, the files written before stay in place with their complete
\* contents and no later file is written.
C9_Writes ==
    /\ \A i \in 1..Len(saves) :
          /\ i = 1 => saves[i].path = n_osm_data_geojson /\ saves[i].data = processed_data
          /\ i > 1 => /\ saves[i].path \in NonEmptyLayerPaths
                      /\ saves[i].data.features # <<>>
                      /\ \E e \in 1..Len(layers) :
                            /\ saves[i].path = layers[e].key \o ext_geojson
                            /\ saves[i].data = layers[e].value
          /\ \A j \in 1..Len(saves) : saves[i].path = saves[j].path => i = j
          /\ Written(i) =>
                /\ saves[i].path \in DOMAIN files
                /\ files[saves[i].path] = [complete |-> TRUE, data |-> saves[i].data]
          /\ ~Written(i) => i = Len(saves) /\ pc = "exited" /\ exitcode = 1 /\ exc # "none"
    /\ DOMAIN files \subseteq {saves[i].path : i \in 1..Len(saves)}
    /\ pc = "exited" /\ exitcode = 0 =>
          /\ \A i \in 1..Len(saves) : Written(i)
          /\ {saves[i].path : i \in 1..Len(saves)} = {n_osm_data_geojson} \cup NonEmptyLayerPaths
\* A run has written osm_data.geojson and a layer and has failed on the
\* second layer.
C9_Witness ==
    /\ pc = "exited" /\ exitcode = 1
    /\ Len(saves) = 3 /\ Written(1) /\ Written(2) /\ saves[3].outcome = "dump_error"
    /\ Len(layers) = 3
    /\ files[saves[2].path].complete

\* A feature of the converted collection has properties without tags.
TagsMissing ==
    /\ HasConverted
    /\ \E i \in 1..Len(geojson_data.features) :
          "tags" \notin DOMAIN geojson_data.features[i].properties

\* C10: when a feature has properties without tags, normalization fails with
\* a missing-key error for the whole run: process_geojson returns no
\* collection and no output file is written.
C10_MissingTagsFails ==
    TagsMissing =>
        /\ processed_data = NoData
        /\ saves = <<>> /\ files = EmptyDict /\ layers = <<>>
        /\ pc \in {"converted", "exited"}
        /\ pc = "exited" => exc = "KeyError" /\ exitcode = 1
\* The second of two features has no tags, the first has; the run has ended.
C10_Witness ==
    /\ pc = "exited" /\ exc = "KeyError"
    /\ Len(geojson_data.features) = 2
    /\ "tags" \in DOMAIN geojson_data.features[1].properties
    /\ "tags" \notin DOMAIN geojson_data.features[2].properties
====
